---- MODULE Spec2Model ----
(***************************************************************************)
(* Steam Dupe Finder plugin for GameVault.                                 *)
(*                                                                         *)
(* The repository holds several generations of SteamDupeFinderService.     *)
(* Four of them are modelled here, selected by the variable `variant`:     *)
(*   "tagging"    - src/unnamed/part_001: one reference catalog (the Steam *)
(*                  library), exact/fuzzy matching, tag write-back, a run  *)
(*                  started by the constructor;                            *)
(*   "wishlist"   - src/unnamed/part_002 lines 208-406: two reference      *)
(*                  catalogs (library and wishlist), matching, log only,   *)
(*                  a run started by @Timeout;                             *)
(*   "log"        - src/steam-dupe-finder.service.ts: one catalog, log     *)
(*                  only, a run started by the constructor;                *)
(*   "logTimeout" - src/unnamed/part_003: as "log", a run started by       *)
(*                  @Timeout.                                              *)
(*                                                                         *)
(* Strings are sequences of one-character strings.  A URL is a sequence of *)
(* tokens: the literal STEAM_APP_PREFIX, one-digit strings, other text.    *)
(***************************************************************************)
EXTENDS Integers, Sequences, FiniteSets, TLC

(***************************************************************************)
(* Bounds of the model.                                                    *)
(***************************************************************************)
\* number of entries in the local store (the vault)
NumGames == 2
\* number of runs of findDuplicates the scheduler starts
MaxRuns == 2

(***************************************************************************)
(* Generic helpers.                                                        *)
(***************************************************************************)
Range(s) == {s[i] : i \in 1..Len(s)}

RECURSIVE CountOf(_, _)
CountOf(x, s) ==
  IF s = <<>> THEN 0
  ELSE (IF Head(s) = x THEN 1 ELSE 0) + CountOf(x, Tail(s))

\* s without its element at position i
RemoveAt(s, i) == SubSeq(s, 1, i - 1) \o SubSeq(s, i + 1, Len(s))

(***************************************************************************)
(* Characters.                                                             *)
(***************************************************************************)
UpperChars == <<"A", "B", "C", "H", "T">>
LowerChars == <<"a", "b", "c", "h", "t">>
DigitChars == <<"0", "1", "2", "3", "4", "5", "6", "7", "8", "9">>
Separators == {" ", ":", "-", "_", "."}

IsUpper(c) == \E i \in 1..Len(UpperChars) : UpperChars[i] = c
IsDigit(c) == \E i \in 1..Len(DigitChars) : DigitChars[i] = c

\* String.prototype.toLowerCase on one character
ToLowerChar(c) ==
  IF IsUpper(c)
  THEN LowerChars[CHOOSE i \in 1..Len(UpperChars) : UpperChars[i] = c]
  ELSE c

CharClass(c) ==
  IF c \in Separators THEN "sep"
  ELSE IF IsUpper(c) THEN "upper"
  ELSE IF IsDigit(c) THEN "digit"
  ELSE "lower"

(***************************************************************************)
(* lodash kebabCase: the string is split into words at separators, at a    *)
(* lower-to-upper change (camelCase) and between letters and digits; the   *)
(* words are lower-cased and joined by "-".  null/undefined give "".       *)
(* (Runs of two or more capitals, which lodash splits before the last      *)
(* capital, do not occur in the titles of this model.)                     *)
(***************************************************************************)
WordBreak(prev, cur) ==
  \/ prev = "sep"
  \/ prev = "lower" /\ cur = "upper"
  \/ prev \in {"lower", "upper"} /\ cur = "digit"
  \/ prev = "digit" /\ cur \in {"lower", "upper"}

RECURSIVE kebabFrom(_, _, _, _)
kebabFrom(s, i, out, prev) ==
  IF i > Len(s) THEN out
  ELSE LET c == s[i]
           cur == CharClass(c)
       IN IF cur = "sep"
          THEN kebabFrom(s, i + 1, out, IF prev = "start" THEN "start" ELSE "sep")
          ELSE kebabFrom(s, i + 1,
                         (IF out # <<>> /\ WordBreak(prev, cur)
                          THEN Append(out, "-") ELSE out) \o <<ToLowerChar(c)>>,
                         cur)

kebabCase(s) == kebabFrom(s, 1, <<>>, "start")

(***************************************************************************)
(* string-similarity-js stringSimilarity(str1, str2) with its defaults     *)
(* (substringLength 2, case-insensitive): the Dice coefficient over the    *)
(* bigrams, each bigram of str1 matched at most once.  The score is the    *)
(* fraction <<numerator, denominator>>; 0 when a string has fewer than two *)
(* characters.                                                             *)
(***************************************************************************)
Bigrams(s) == [i \in 1..(Len(s) - 1) |-> <<s[i], s[i + 1]>>]

RECURSIVE MatchCount(_, _)
\* map: the bigrams of str1 not matched yet; rest: the bigrams of str2 to go
MatchCount(map, rest) ==
  IF rest = <<>> THEN 0
  ELSE IF \E i \in 1..Len(map) : map[i] = Head(rest)
       THEN 1 + MatchCount(RemoveAt(map, CHOOSE i \in 1..Len(map) : map[i] = Head(rest)),
                           Tail(rest))
       ELSE MatchCount(map, Tail(rest))

LowerStr(s) == [i \in 1..Len(s) |-> ToLowerChar(s[i])]

stringSimilarity(str1, str2) ==
  LET a == LowerStr(str1)
      b == LowerStr(str2)
  IN IF Len(a) < 2 \/ Len(b) < 2 THEN <<0, 1>>
     ELSE <<2 * MatchCount(Bigrams(a), Bigrams(b)), Len(a) + Len(b) - 2>>

\* score > 0.9
ThresholdNum == 9
ThresholdDen == 10

\* score >= 0.9
AtLeastThreshold(score) == score[1] * ThresholdDen >= ThresholdNum * score[2]

AboveThreshold(score) == score[1] * ThresholdDen > ThresholdNum * score[2]

(***************************************************************************)
(* Steam app ids.                                                          *)
(***************************************************************************)
STEAM_APP_PREFIX == "store.steampowered.com/app/"

RECURSIVE NatToString(_)
\* Number.prototype.toString / String(n) for a non-negative integer
NatToString(n) ==
  IF n < 10 THEN <<DigitChars[n + 1]>>
  ELSE Append(NatToString(n \div 10), DigitChars[(n % 10) + 1])

RECURSIVE DigitRun(_, _)
\* the maximal run of digits of url starting at position i: (\d+), greedy
DigitRun(url, i) ==
  IF i > Len(url) \/ ~IsDigit(url[i]) THEN <<>>
  ELSE <<url[i]>> \o DigitRun(url, i + 1)

\* url.match(/store\.steampowered\.com\/app\/(\d+)/)?.[1]; <<>> is undefined
UrlMatch(url) ==
  LET hits == {i \in 1..Len(url) : url[i] = STEAM_APP_PREFIX /\ DigitRun(url, i + 1) # <<>>}
  IN IF hits = {} THEN <<>>
     ELSE DigitRun(url, (CHOOSE i \in hits : \A j \in hits : i <= j) + 1)

RECURSIVE Flatten(_)
Flatten(ss) == IF ss = <<>> THEN <<>> ELSE Head(ss) \o Flatten(Tail(ss))

\* the last captured id instead of the first
LastTruthy(ids) ==
  LET hits == {i \in 1..Len(ids) : ids[i] # <<>>}
  IN IF hits = {} THEN <<>> ELSE ids[CHOOSE i \in hits : \A j \in hits : i >= j]

\* .find(Boolean) ?? null over the captured ids; <<>> is null
FirstTruthy(ids) ==
  LET hits == {i \in 1..Len(ids) : ids[i] # <<>>}
  IN IF hits = {} THEN <<>> ELSE ids[CHOOSE i \in hits : \A j \in hits : i <= j]

\* part_001: game.provider_metadata?.flatMap(m => m.url_websites?.map(match)).find(Boolean)
extractSteamAppId(game) ==
  LET urls == Flatten(game.provider_metadata)
  IN FirstTruthy([i \in 1..Len(urls) |-> UrlMatch(urls[i])])

\* part_002: game.metadata?.url_websites?.map(match).find(Boolean)
extractSteamAppIdMerged(game) ==
  LET urls == game.metadata
  IN FirstTruthy([i \in 1..Len(urls) |-> UrlMatch(urls[i])])

(***************************************************************************)
(* The sentinel tag (part_001 line 13).                                    *)
(***************************************************************************)
DUPLICATE_TAG == "Duplicate: Steam"

\* `tag === DUPLICATE_TAG`: a tag object is never the string
IsTaggedByIdentity(game) == FALSE

\* game.user_metadata?.tags?.some(tag => tag.name === DUPLICATE_TAG)
IsTagged(game) == \E i \in 1..Len(game.tags) : game.tags[i] = DUPLICATE_TAG

\* new Map(steamGames.map(g => [g.appid.toString(), g])).has(steamId)
HasAppId(steamItems, steamId) ==
  \E i \in 1..Len(steamItems) : NatToString(steamItems[i].appid) = steamId

\* "name" in steamItem: a wishlist item carries no name
HasName(steamItem) == "name" \in DOMAIN steamItem

(***************************************************************************)
(* The fuzzy title scan.  The result records whether a reference entry     *)
(* scored above the threshold (hit), its position (at) and how many calls  *)
(* of stringSimilarity were made (scored).                                 *)
(***************************************************************************)
RECURSIVE TitleScanFrom(_, _, _, _)
\* part_001 lines 123-134: for (const steamGame of steamGames) { if (sim > 0.9) { add; break } }
TitleScanFrom(title, steamGames, i, scored) ==
  IF i > Len(steamGames) THEN [hit |-> FALSE, at |-> 0, scored |-> scored]
  ELSE IF AboveThreshold(stringSimilarity(kebabCase(title), kebabCase(steamGames[i].name)))
       THEN [hit |-> TRUE, at |-> i, scored |-> scored + 1]
       ELSE TitleScanFrom(title, steamGames, i + 1, scored + 1)

RECURSIVE matchByTitleFrom(_, _, _, _)
\* part_002 lines 346-359: "name" in steamItem && vaultGame.title && sim > 0.9
matchByTitleFrom(title, steamItems, i, scored) ==
  IF i > Len(steamItems) THEN [hit |-> FALSE, at |-> 0, scored |-> scored]
  ELSE IF HasName(steamItems[i]) /\ title # <<>>
       THEN IF AboveThreshold(stringSimilarity(kebabCase(title),
                                               kebabCase(steamItems[i].name)))
            THEN [hit |-> TRUE, at |-> i, scored |-> scored + 1]
            ELSE matchByTitleFrom(title, steamItems, i + 1, scored + 1)
       ELSE matchByTitleFrom(title, steamItems, i + 1, scored)

matchByTitle(vaultGame, steamItems) == matchByTitleFrom(vaultGame.title, steamItems, 1, 0)

(***************************************************************************)
(* What the matcher does with one local entry.                             *)
(*   kind      "skipped" | "exact" | "fuzzy" | "none"                      *)
(*   extracted extractSteamAppId was called                                *)
(*   scanned   the title loop was entered                                  *)
(*   scored    number of stringSimilarity calls                            *)
(***************************************************************************)
MatchResult(kind, extracted, scanned, scored) ==
  [kind |-> kind, extracted |-> extracted, scanned |-> scanned, scored |-> scored]

\* without the `continue` of line 120: the title loop runs after an exact match too
MatchGameNoContinue(game, steamGames) ==
  IF IsTagged(game) THEN MatchResult("skipped", FALSE, FALSE, 0)
  ELSE LET steamId == extractSteamAppId(game)
           scan == TitleScanFrom(game.title, steamGames, 1, 0)
       IN IF steamId # <<>> /\ HasAppId(steamGames, steamId)
          THEN MatchResult("exact", TRUE, TRUE, scan.scored)
          ELSE MatchResult(IF scan.hit THEN "fuzzy" ELSE "none", TRUE, TRUE, scan.scored)

\* without the already-tagged check of lines 104-113
MatchGameNoSkip(game, steamGames) ==
  LET steamId == extractSteamAppId(game)
  IN IF steamId # <<>> /\ HasAppId(steamGames, steamId)
     THEN MatchResult("exact", TRUE, FALSE, 0)
     ELSE LET scan == TitleScanFrom(game.title, steamGames, 1, 0)
          IN MatchResult(IF scan.hit THEN "fuzzy" ELSE "none", TRUE, TRUE, scan.scored)

\* part_001 lines 103-135, the body of the loop over gamevaultGames
MatchGame(game, steamGames) ==
  IF IsTagged(game) THEN MatchResult("skipped", FALSE, FALSE, 0)
  ELSE LET steamId == extractSteamAppId(game)
       IN IF steamId # <<>> /\ HasAppId(steamGames, steamId)
          THEN MatchResult("exact", TRUE, FALSE, 0)
          ELSE LET scan == TitleScanFrom(game.title, steamGames, 1, 0)
               IN MatchResult(IF scan.hit THEN "fuzzy" ELSE "none", TRUE, TRUE, scan.scored)

\* part_002 lines 325-334, the body of gamevaultGames.forEach
MatchVaultGame(vaultGame, steamItems) ==
  LET steamId == extractSteamAppIdMerged(vaultGame)
  IN IF steamId # <<>> /\ HasAppId(steamItems, steamId)
     THEN MatchResult("exact", TRUE, FALSE, 0)
     ELSE LET scan == matchByTitle(vaultGame, steamItems)
          IN MatchResult(IF scan.hit THEN "fuzzy" ELSE "none", TRUE, TRUE, scan.scored)

\* extractSteamAppId of the log-only services: service.ts lines 121-131 reads
\* provider_metadata, part_003 lines 133-141 reads metadata
extractSteamAppIdOf(v, game) ==
  IF v = "log" THEN extractSteamAppId(game) ELSE extractSteamAppIdMerged(game)

\* service.ts lines 82-108, part_003 lines 97-123, the body of the loop over
\* gamevaultGames.  In the title branch the argument of logger.log reads
\* steamGameMap.get(steamId).name; the map has no steamId there (the id branch
\* was not taken), get returns undefined and the read throws a TypeError
\* before duplicates.add: the result is "threw".
MatchGameLogOnly(v, game, steamGames) ==
  LET steamId == extractSteamAppIdOf(v, game)
  IN IF steamId # <<>> /\ HasAppId(steamGames, steamId)
     THEN MatchResult("exact", TRUE, FALSE, 0)
     ELSE LET scan == TitleScanFrom(game.title, steamGames, 1, 0)
          IN MatchResult(IF scan.hit THEN "threw" ELSE "none", TRUE, TRUE, scan.scored)

RECURSIVE LogOnlyTraceFrom(_, _, _, _, _)
\* one result per local entry; the entries after a throw are not visited
LogOnlyTraceFrom(v, gamevaultGames, steamGames, i, threw) ==
  IF i > Len(gamevaultGames) THEN <<>>
  ELSE IF threw
       THEN <<MatchResult("unvisited", FALSE, FALSE, 0)>>
            \o LogOnlyTraceFrom(v, gamevaultGames, steamGames, i + 1, TRUE)
       ELSE LET matched == MatchGameLogOnly(v, gamevaultGames[i], steamGames)
            IN <<matched>> \o LogOnlyTraceFrom(v, gamevaultGames, steamGames, i + 1,
                                               matched.kind = "threw")

LogOnlyTrace(v, gamevaultGames, steamGames) ==
  LogOnlyTraceFrom(v, gamevaultGames, steamGames, 1, FALSE)

\* one result per local entry, in snapshot order
MatchTrace(gamevaultGames, steamGames) ==
  [i \in 1..Len(gamevaultGames) |-> MatchGame(gamevaultGames[i], steamGames)]

MatchingTrace(gamevaultGames, steamItems) ==
  [i \in 1..Len(gamevaultGames) |-> MatchVaultGame(gamevaultGames[i], steamItems)]

(***************************************************************************)
(* Set<GamevaultGame>: a JavaScript Set keeps insertion order and holds an *)
(* object once; it is a sequence without repetition.                       *)
(***************************************************************************)
SetAdd(set, game) ==
  IF \E i \in 1..Len(set) : set[i] = game THEN set ELSE Append(set, game)

RECURSIVE CollectFrom(_, _, _, _)
CollectFrom(games, trace, i, set) ==
  IF i > Len(games) THEN set
  ELSE CollectFrom(games, trace, i + 1,
                   IF trace[i].kind \in {"exact", "fuzzy"} THEN SetAdd(set, games[i]) ELSE set)

RECURSIVE PushAllMatches(_, _, _)
\* every reference entry matching game by id or by title pushes the game once more
PushAllMatches(game, steamGames, i) ==
  IF i > Len(steamGames) THEN <<>>
  ELSE (IF \/ NatToString(steamGames[i].appid) = extractSteamAppId(game)
           \/ AboveThreshold(stringSimilarity(kebabCase(game.title),
                                              kebabCase(steamGames[i].name)))
        THEN <<game>> ELSE <<>>) \o PushAllMatches(game, steamGames, i + 1)

RECURSIVE identifyDuplicateGamesArray(_, _)
\* an array instead of the Set and no continue/break: one push per matching entry
identifyDuplicateGamesArray(gamevaultGames, steamGames) ==
  IF gamevaultGames = <<>> THEN <<>>
  ELSE (IF IsTagged(Head(gamevaultGames)) THEN <<>>
        ELSE PushAllMatches(Head(gamevaultGames), steamGames, 1))
       \o identifyDuplicateGamesArray(Tail(gamevaultGames), steamGames)

\* part_001 lines 92-138
identifyDuplicateGames(gamevaultGames, steamGames) ==
  CollectFrom(gamevaultGames, MatchTrace(gamevaultGames, steamGames), 1, <<>>)

\* part_002 lines 315-337
findMatchingGames(gamevaultGames, steamItems) ==
  CollectFrom(gamevaultGames, MatchingTrace(gamevaultGames, steamItems), 1, <<>>)

\* service.ts lines 67-113, part_003 lines 82-126: the Set is returned unless
\* the loop threw
identifyDuplicateGamesLogOnly(v, gamevaultGames, steamGames) ==
  LET trace == LogOnlyTrace(v, gamevaultGames, steamGames)
  IN [threw |-> \E i \in 1..Len(trace) : trace[i].kind = "threw",
      duplicates |-> CollectFrom(gamevaultGames, trace, 1, <<>>)]

(***************************************************************************)
(* tagGamesAsDuplicate: the update requests built from the duplicates.     *)
(***************************************************************************)
\* the sentinel appended once per source
NewTagsPerSource(tags) == Append(Append(tags, DUPLICATE_TAG), DUPLICATE_TAG)

\* part_001 lines 175-178: [...tags.map(tag => tag.name), DUPLICATE_TAG]
NewTags(tags) == Append(tags, DUPLICATE_TAG)

RECURSIVE BuildUpdates(_)
\* part_001 lines 165-180: [...duplicates].filter(not tagged).map(update)
BuildUpdates(duplicates) ==
  IF duplicates = <<>> THEN <<>>
  ELSE (IF IsTagged(Head(duplicates)) THEN <<>>
        ELSE <<[id |-> Head(duplicates).id, tags |-> NewTags(Head(duplicates).tags)]>>)
       \o BuildUpdates(Tail(duplicates))

\* `for (const u of updates) await update(u)`: a request is handed over only
\* after every earlier one succeeded
SentSequentially(updates, statuses) ==
  {i \in 1..Len(updates) : \A j \in 1..(i - 1) : statuses[j] = "ok"}

\* part_001 lines 184-186: updates.map(update => gamesService.update(...)) hands
\* every request to the store before the first one is awaited
Sent(updates, statuses) == 1..Len(updates)

(***************************************************************************)
(* Sample data: titles, names, URLs, local entries, reference catalogs.   *)
(***************************************************************************)
TitleHalo == <<"H", "a", "l", "o", ":", " ", "C", "e">>
TitleTetris == <<"T", "e", "t", "r", "i", "s">>
NameHaloDash == <<"H", "a", "l", "o", " ", "-", " ", "C", "e">>
NameHaloSnake == <<"h", "a", "l", "o", "_", "c", "e">>
NameChess == <<"C", "h", "e", "s", "s">>

UrlSteam20 == <<"https://", STEAM_APP_PREFIX, "2", "0", "/">>
UrlSteam020 == <<"https://", STEAM_APP_PREFIX, "0", "2", "0">>
UrlIgdb == <<"https://", "igdb.com/games/", "7">>

\* the kinds of local entry the vault is filled from
Profiles ==
  << \* title close to a reference name, no Steam URL
     [title |-> TitleHalo, provider_metadata |-> <<>>, metadata |-> <<>>, tags |-> <<>>],
     \* Steam URL of app 20 behind another URL, unrelated title, another tag
     [title |-> TitleTetris, provider_metadata |-> << <<UrlIgdb>>, <<UrlSteam20>> >>,
      metadata |-> <<UrlIgdb, UrlSteam20>>, tags |-> <<"RPG">>],
     \* Steam URL of app 20 and a title close to a reference name
     [title |-> TitleHalo, provider_metadata |-> << <<UrlSteam20>> >>,
      metadata |-> <<UrlSteam20>>, tags |-> <<>>],
     \* as before, already carrying the sentinel
     [title |-> TitleHalo, provider_metadata |-> << <<UrlSteam20>> >>,
      metadata |-> <<UrlSteam20>>, tags |-> <<"RPG", DUPLICATE_TAG>>],
     \* no title, a Steam URL whose id "020" is no appid's decimal form
     [title |-> <<>>, provider_metadata |-> << <<UrlSteam020>> >>,
      metadata |-> <<UrlSteam020>>, tags |-> <<>>] >>

(***************************************************************************)
(* Sample data at the threshold.  With 11 characters each and 9 of the 10  *)
(* bigrams shared, kebabCase(TitleEleven) and kebabCase(NameElevenX) score *)
(* 18/20; TitleTwelve and NameTwelveX score 20/22; TitleEleven and         *)
(* TitleTwelve score 20/21.                                                *)
(***************************************************************************)
TitleEleven == <<"A", "b", "c", "d", "e", "f", "g", "h", "i", "j", "k">>
TitleTwelve == <<"a", "b", "c", "d", "e", "f", "g", "h", "i", "j", "k", "l">>
NameElevenX == <<"a", "b", "c", "d", "e", "f", "g", "h", "i", "j", "x">>
NameTwelveX == <<"a", "b", "c", "d", "e", "f", "g", "h", "i", "j", "k", "x">>

UrlSteam7 == <<"https://", STEAM_APP_PREFIX, "7", "/", "2", "0">>

BoundaryProfiles ==
  << [title |-> TitleEleven, provider_metadata |-> <<>>, metadata |-> <<>>, tags |-> <<>>],
     [title |-> TitleTwelve, provider_metadata |-> <<>>, metadata |-> <<>>, tags |-> <<>>],
     \* two Steam URLs, of apps 7 and 20, behind a URL that is none, and a
     \* provider without url_websites (flatMap keeps its undefined)
     [title |-> TitleEleven,
      provider_metadata |-> << <<UrlIgdb>>, <<>>, <<UrlSteam7, UrlSteam20>> >>,
      metadata |-> <<UrlIgdb, UrlSteam7, UrlSteam20>>, tags |-> <<>>],
     \* URLs, none of Steam
     [title |-> TitleTwelve, provider_metadata |-> << <<UrlIgdb>>, <<UrlIgdb>> >>,
      metadata |-> <<UrlIgdb, UrlIgdb>>, tags |-> <<"RPG">>] >>

\* every kind of local entry
Entries == Profiles \o BoundaryProfiles

BoundaryCatalogs ==
  { << [appid |-> 9, name |-> NameElevenX] >>,
    << [appid |-> 20, name |-> NameTwelveX] >>,
    << [appid |-> 9, name |-> NameElevenX], [appid |-> 8, name |-> TitleTwelve],
       [appid |-> 7, name |-> TitleEleven] >> }

LibraryChessHalo ==
  << [appid |-> 7, name |-> NameChess], [appid |-> 20, name |-> NameHaloDash] >>

LibraryTwoHalos ==
  << [appid |-> 20, name |-> NameChess], [appid |-> 7, name |-> NameHaloDash],
     [appid |-> 8, name |-> NameHaloSnake] >>

LibraryCatalogs ==
  { LibraryChessHalo,
    LibraryTwoHalos,
    << [appid |-> 9, name |-> NameChess] >> }

\* SteamWishlistItem has an appid and no name
WishlistCatalogs ==
  { << [appid |-> 20] >>, << [appid |-> 9] >> }

\* STEAM_API_KEY and STEAM_USER_ID set (TRUE) or unset
Configs ==
  { [key |-> TRUE, user |-> TRUE], [key |-> FALSE, user |-> TRUE],
    [key |-> TRUE, user |-> FALSE] }

Variants == {"tagging", "wishlist"}

LogOnlyVariants == {"log", "logTimeout"}

AllVariants == Variants \cup LogOnlyVariants

(***************************************************************************)
(* configuration.ts: the interval.  An environment variable is unset or a  *)
(* string; a number is NaN or a sign and the decimal digits of its         *)
(* magnitude without leading zeros (the strings tried hold no ".", "e",    *)
(* "x" or "Infinity", so every number met is an integer).                  *)
(***************************************************************************)
\* longest value of the interval variable tried
MaxEnvLen == 3

EnvChars == {"0", "1", "7", "-", " ", "x"}

WhiteSpace == {" "}

NaN == [nan |-> TRUE, neg |-> FALSE, digits |-> <<>>]

Num(neg, digits) == [nan |-> FALSE, neg |-> neg, digits |-> digits]

RECURSIVE TrimStart(_)
TrimStart(s) == IF s # <<>> /\ Head(s) \in WhiteSpace THEN TrimStart(Tail(s)) ELSE s

RECURSIVE TrimEnd(_)
TrimEnd(s) ==
  IF s # <<>> /\ s[Len(s)] \in WhiteSpace THEN TrimEnd(SubSeq(s, 1, Len(s) - 1)) ELSE s

RECURSIVE StripZeros(_)
\* the digits of a magnitude: "007" is 7, "000" is 0
StripZeros(digits) ==
  IF Len(digits) > 1 /\ Head(digits) = "0" THEN StripZeros(Tail(digits)) ELSE digits

AllDigits(s) == s # <<>> /\ \A i \in 1..Len(s) : IsDigit(s[i])

\* Number(string), ECMAScript StringToNumber: white space is trimmed, the
\* empty string is 0, a signed decimal literal is its value, the rest is NaN
StringToNumber(s) ==
  LET t == TrimEnd(TrimStart(s))
  IN IF t = <<>> THEN Num(FALSE, <<"0">>)
     ELSE IF Head(t) \in {"+", "-"}
          THEN IF AllDigits(Tail(t)) THEN Num(Head(t) = "-", StripZeros(Tail(t))) ELSE NaN
          ELSE IF AllDigits(t) THEN Num(FALSE, StripZeros(t)) ELSE NaN

\* Number(process.env.X): the variable is unset (undefined) or a string
ToNumber(env) == IF env.set THEN StringToNumber(env.value) ELSE NaN

DigitValue(c) == (CHOOSE i \in 1..Len(DigitChars) : DigitChars[i] = c) - 1

\* magnitude a > magnitude b, both without leading zeros
DigitsGreater(a, b) ==
  \/ Len(a) > Len(b)
  \/ /\ Len(a) = Len(b)
     /\ \E i \in 1..Len(a) :
          /\ DigitValue(a[i]) > DigitValue(b[i])
          /\ \A j \in 1..(i - 1) : a[j] = b[j]

IsZero(n) == ~n.nan /\ n.digits = <<"0">>

\* n < 0 (false for NaN and for -0)
Negative(n) == ~n.nan /\ n.neg /\ ~IsZero(n)

\* n <= 0 (false for NaN)
NotPositive(n) == ~n.nan /\ (n.neg \/ IsZero(n))

\* Number.MAX_SAFE_INTEGER, 2^53 - 1
MAX_SAFE_INTEGER ==
  Num(FALSE, <<"9", "0", "0", "7", "1", "9", "9", "2", "5", "4", "7", "4", "0", "9",
               "9", "1">>)

\* configuration.ts line 16: the default, 24 * 60
DefaultInterval == Num(FALSE, NatToString(24 * 60))

\* configuration.ts lines 1-10
parseNumber(environmentVariable, defaultValue) ==
  LET number == ToNumber(environmentVariable)
  IN IF \/ number.nan
        \/ Negative(number)
        \/ (~number.neg /\ DigitsGreater(number.digits, MAX_SAFE_INTEGER.digits))
     THEN defaultValue
     ELSE number

\* @Cron(..., { disabled: configuration.INTERVAL <= 0 })
CronDisabled(interval) == NotPositive(interval)

RECURSIVE StringsUpTo(_)
\* the strings over EnvChars of length at most n
StringsUpTo(n) ==
  IF n = 0 THEN {<<>>}
  ELSE LET shorter == StringsUpTo(n - 1)
       IN shorter \cup {Append(s, c) : s \in shorter, c \in EnvChars}

Unset == [set |-> FALSE, value |-> <<>>]

EnvValues == {Unset} \cup {[set |-> TRUE, value |-> s] : s \in StringsUpTo(MaxEnvLen)}

(***************************************************************************)
(* configuration.ts: getCensoredConfiguration.  A JavaScript value is      *)
(* undefined, null, a string or a number.                                  *)
(***************************************************************************)
JsUndefined == [t |-> "undefined"]
JsNull == [t |-> "null"]
JsString(str) == [t |-> "string", v |-> str]
JsNumber(n) == [t |-> "number", v |-> n]

\* process.env.X as a value: undefined when unset
EnvToJs(env) == IF env.set THEN JsString(env.value) ELSE JsUndefined

\* ToBoolean
Truthy(value) ==
  CASE value.t = "string" -> value.v # <<>>
    [] value.t = "number" -> ~value.v.nan /\ ~IsZero(value.v)
    [] OTHER -> FALSE

\* lines 12-19: the configuration object
ConfigurationOf(userEnv, keyEnv, interval) ==
  [STEAM_USER_ID |-> EnvToJs(userEnv), STEAM_API_KEY |-> EnvToJs(keyEnv),
   INTERVAL |-> JsNumber(interval)]

\* line 23, the replacer: (_k, v) => (v === undefined ? null : v)
Replacer(value) == IF value = JsUndefined THEN JsNull ELSE value

\* JSON.parse(JSON.stringify(value)) of a primitive: a string is itself, a
\* finite number is itself except that -0 is written "0", NaN is written null
JsonRoundTrip(value) ==
  IF value.t = "number"
  THEN IF value.v.nan THEN JsNull
       ELSE IF IsZero(value.v) THEN JsNumber(Num(FALSE, <<"0">>))
       ELSE value
  ELSE value

REDACTED == <<"*", "*", "R", "E", "D", "A", "C", "T", "E", "D", "*", "*">>

\* the key is left as it is
RedactNothing(value) == value

\* lines 25-27: censoredConfig.STEAM_API_KEY ? "**REDACTED**" : null
Redact(value) == IF Truthy(value) THEN JsString(REDACTED) ELSE JsNull

\* lines 21-29
getCensoredConfiguration(configuration) ==
  LET censoredConfig == [k \in DOMAIN configuration |->
                          JsonRoundTrip(Replacer(configuration[k]))]
  IN [censoredConfig EXCEPT !.STEAM_API_KEY = Redact(censoredConfig.STEAM_API_KEY)]

\* the values of the key and user id variables tried
SecretValues ==
  {Unset, [set |-> TRUE, value |-> <<>>], [set |-> TRUE, value |-> <<"k", "1">>],
   [set |-> TRUE, value |-> <<"k", "2", "x">>]}

\* !configuration.STEAM_API_KEY / !configuration.STEAM_USER_ID
ConfigOf(env) ==
  [key |-> Truthy(EnvToJs(env.key)), user |-> Truthy(EnvToJs(env.user))]

\* variables that give cfg
SecretsOf(cfg) ==
  [key |-> IF cfg.key THEN [set |-> TRUE, value |-> <<"k", "1">>] ELSE Unset,
   user |-> IF cfg.user THEN [set |-> TRUE, value |-> <<"7", "6">>] ELSE Unset]

(***************************************************************************)
(* State.                                                                  *)
(***************************************************************************)
VARIABLES
  variant,          \* which generation of the service is loaded
  config,           \* configuration.STEAM_API_KEY / STEAM_USER_ID
  vault,            \* local store: entry id -> index into Profiles
  storeTags,        \* local store: entry id -> user_metadata.tags (names)
  libraryCatalog,   \* what GetOwnedGames answers when it succeeds
  wishlistCatalog,  \* what GetWishlist answers when it succeeds
  runNo,            \* runs of findDuplicates started so far
  pc,               \* "idle" | "fetching" | "tagging" | "done"
  outcome,          \* "none" | "ok" (try block completed) | "error" (catch)
  fetch,            \* fetch name -> "none" | "pending" | "ok" | "failed" | "config"
  steamGames,       \* the run's library snapshot
  wishlistedGames,  \* the run's wishlist snapshot
  gamevaultGames,   \* the run's local-store snapshot
  identified,       \* the run reached the matching step
  duplicates,       \* identifyDuplicateGames / library findMatchingGames result
  wishlistDuplicates,
  libraryTrace,     \* the matcher's result per local entry, library
  wishlistTrace,    \* the same for the wishlist
  batch,            \* the update requests of tagGamesAsDuplicate, in order
  reqStatus,        \* per request: "unsent" | "pending" | "ok" | "failed"
  orphans,          \* requests of earlier runs still in flight at the store
  errLog,           \* logger.error calls of the current run
  reported,         \* logDuplicateResults arguments, <<>> when not called
  prev,             \* how the previous run ended
  intervalEnv,      \* process.env.PLUGIN_..._INTERVAL: unset or a string
  INTERVAL,         \* configuration.INTERVAL
  phase,            \* "import" | "loaded" | "started": configuration built, start-up scan triggered
  other,            \* a second call of findDuplicates running at the same time
  secrets,          \* process.env: the API key and user id variables
  logged            \* the configuration logged by the constructor, or NotLogged

vars ==
  << variant, config, vault, storeTags, libraryCatalog, wishlistCatalog, runNo, pc,
     outcome, fetch, steamGames, wishlistedGames, gamevaultGames, identified,
     duplicates, wishlistDuplicates, libraryTrace, wishlistTrace, batch, reqStatus,
     orphans, errLog, reported, prev, intervalEnv, INTERVAL, phase, other,
     secrets, logged >>

\* what is fixed once the plugin is loaded
settings ==
  << variant, config, vault, libraryCatalog, wishlistCatalog, intervalEnv, INTERVAL,
     secrets >>

\* what no step of a run changes
environment == << settings, phase, other, logged >>

GameIds == 1..NumGames

\* fetchGamevaultGames: gamesService.find(...) answers with the store's content
StoreContent ==
  [i \in GameIds |->
     [id |-> i, title |-> Entries[vault[i]].title,
      provider_metadata |-> Entries[vault[i]].provider_metadata,
      metadata |-> Entries[vault[i]].metadata, tags |-> storeTags[i]]]

\* the members of Promise.all([...]) in findDuplicates
FetchNames ==
  IF variant = "wishlist" THEN {"library", "wishlist", "vault"} ELSE {"library", "vault"}

\* the vaults tried: every choice of NumGames profiles (entries are matched one
\* by one, so the order of the rows is not varied)
Vaults ==
  {v \in [GameIds -> 1..Len(Profiles)] : \A i, j \in GameIds : i < j => v[i] <= v[j]}

NotLogged == [t |-> "nothing"]

\* the locals of a call of findDuplicates that has not been made
NotCalled ==
  [pc |-> "idle", outcome |-> "none", fetch |-> [library |-> "none", vault |-> "none"],
   steamGames |-> <<>>, gamevaultGames |-> <<>>, duplicates |-> <<>>, batch |-> <<>>,
   reqStatus |-> <<>>]

\* no run has started: the store holds the vault's entries
RunIdle ==
  /\ other = NotCalled
  /\ logged = NotLogged
  /\ storeTags = [i \in GameIds |-> Entries[vault[i]].tags]
  /\ runNo = 0
  /\ pc = "idle"
  /\ outcome = "none"
  /\ fetch = [n \in FetchNames |-> "none"]
  /\ steamGames = <<>>
  /\ wishlistedGames = <<>>
  /\ gamevaultGames = <<>>
  /\ identified = FALSE
  /\ duplicates = <<>>
  /\ wishlistDuplicates = <<>>
  /\ libraryTrace = <<>>
  /\ wishlistTrace = <<>>
  /\ batch = <<>>
  /\ reqStatus = <<>>
  /\ orphans = {}
  /\ errLog = <<>>
  /\ reported = <<>>
  /\ prev = [ok |-> FALSE, tagged |-> 0]

\* the configuration is built with the interval variable unset; when runs are
\* started is left to StartRun
Init ==
  /\ variant \in Variants
  /\ config \in Configs
  /\ vault \in Vaults
  /\ libraryCatalog \in LibraryCatalogs
  /\ wishlistCatalog \in (IF variant = "wishlist" THEN WishlistCatalogs ELSE {<<>>})
  /\ intervalEnv = Unset
  /\ INTERVAL = parseNumber(intervalEnv, DefaultInterval)
  /\ phase = "loaded"
  /\ secrets = SecretsOf(config)
  /\ RunIdle

(***************************************************************************)
(* Pieces of findDuplicates.                                               *)
(***************************************************************************)
\* nothing is checked
validateNothing(cfg) == TRUE

\* only the API key is looked at
validateKeyOnly(cfg) == cfg.key

\* part_001 lines 194-204, part_002 lines 362-366: TRUE when nothing is thrown
validateSteamConfig(cfg) == cfg.key /\ cfg.user

\* logger.error of validateSteamConfig (part_001 only)
ValidateLog(cfg) ==
  IF variant # "tagging" \/ validateSteamConfig(cfg) THEN <<>>
  ELSE IF ~cfg.key THEN <<"Steam API key is missing.">>
  ELSE <<"Steam User ID is missing.">>

\* a catch block that logs nothing
CatchSilently == <<>>

CatchLog == <<"Error during duplicate detection">>

\* a failed wishlist fetch counts as an empty wishlist
PromiseAllOptionalWishlist(names, f) ==
  IF \E n \in names \ {"wishlist"} : f[n] \in {"failed", "config"} THEN "rejected"
  ELSE IF \A n \in names : f[n] \in {"ok"} \/ (n = "wishlist" /\ f[n] = "failed")
       THEN "fulfilled"
       ELSE "pending"

\* await Promise.all([...]): rejected by the first rejection, fulfilled by all
PromiseAll(names, f) ==
  IF \E n \in names : f[n] \in {"failed", "config"} THEN "rejected"
  ELSE IF \A n \in names : f[n] = "ok" THEN "fulfilled"
  ELSE "pending"

\* both counts taken from the library result
logDuplicateResultsLibraryTwice(libraryCount, wishlistCount) ==
  [library |-> libraryCount, wishlist |-> libraryCount]

\* part_002 lines 386-392
logDuplicateResults(libraryCount, wishlistCount) ==
  [library |-> libraryCount, wishlist |-> wishlistCount]

\* every service writes the tag back
everyServiceTags(v) == TRUE

\* part_001 line 45: only this service has `await this.tagGamesAsDuplicate(duplicates)`
callsTagGamesAsDuplicate(v) == v = "tagging"

RunLocalsUnchanged ==
  UNCHANGED << steamGames, wishlistedGames, gamevaultGames, identified, duplicates,
               wishlistDuplicates, libraryTrace, wishlistTrace, batch, reqStatus,
               reported >>

(***************************************************************************)
(* The scheduler starts a run (constructor call, @Timeout or @Cron).  Runs *)
(* follow one another: a run starts when no other is between its start    *)
(* and its end.  The step is the synchronous prefix of findDuplicates up   *)
(* to `await Promise.all`: both (all three) fetches are called; a fetch    *)
(* from Steam whose validateSteamConfig throws is rejected at once, and    *)
(* the catch block runs before any I/O completes.                          *)
(***************************************************************************)
BeginRun ==
  /\ pc \in {"idle", "done"}
  /\ runNo < MaxRuns
  /\ runNo' = runNo + 1
  /\ prev' = [ok |-> (pc = "done" /\ outcome = "ok"), tagged |-> Len(batch)]
  /\ orphans' = orphans \cup {batch[i] : i \in {j \in 1..Len(batch) : reqStatus[j] = "pending"}}
  /\ steamGames' = <<>>
  /\ wishlistedGames' = <<>>
  /\ gamevaultGames' = <<>>
  /\ identified' = FALSE
  /\ duplicates' = <<>>
  /\ wishlistDuplicates' = <<>>
  /\ libraryTrace' = <<>>
  /\ wishlistTrace' = <<>>
  /\ batch' = <<>>
  /\ reqStatus' = <<>>
  /\ reported' = <<>>
  /\ IF validateSteamConfig(config)
     THEN /\ fetch' = [n \in FetchNames |-> "pending"]
          /\ pc' = "fetching"
          /\ outcome' = "none"
          /\ errLog' = <<>>
     ELSE /\ fetch' = [n \in FetchNames |-> IF n = "vault" THEN "pending" ELSE "config"]
          /\ pc' = "done"
          /\ outcome' = "error"
          /\ errLog' = ValidateLog(config) \o CatchLog

\* a run is started, by whichever trigger
StartRun == BeginRun /\ UNCHANGED << environment, storeTags >>

\* the first call of findDuplicates, at start-up
FirstRunStarts == runNo = 0 /\ StartRun

(***************************************************************************)
(* The continuation of `await Promise.all` once every fetch has answered:  *)
(* matching, and in the tagging service tagGamesAsDuplicate up to its own  *)
(* `await Promise.all`.  f, sg, wg, gg are the fetch states and snapshots  *)
(* as of this step.                                                        *)
(***************************************************************************)
Continue(f, sg, wg, gg) ==
  /\ identified' = TRUE
  /\ CASE callsTagGamesAsDuplicate(variant) ->
            LET dups == identifyDuplicateGames(gg, sg)
                updates == IF dups = <<>> THEN <<>> ELSE BuildUpdates(dups)
                sent == Sent(updates, [i \in 1..Len(updates) |-> "unsent"])
            IN /\ duplicates' = dups
               /\ libraryTrace' = MatchTrace(gg, sg)
               /\ wishlistDuplicates' = <<>>
               /\ wishlistTrace' = <<>>
               /\ reported' = <<>>
               /\ batch' = updates
               /\ reqStatus' = [i \in 1..Len(updates) |->
                                  IF i \in sent THEN "pending" ELSE "unsent"]
               /\ errLog' = errLog
               /\ IF updates = <<>>
                  THEN pc' = "done" /\ outcome' = "ok"
                  ELSE pc' = "tagging" /\ outcome' = "none"
       [] variant = "wishlist" ->
            LET libraryDuplicates == findMatchingGames(gg, sg)
                wishDuplicates == findMatchingGames(gg, wg)
            IN /\ duplicates' = libraryDuplicates
               /\ libraryTrace' = MatchingTrace(gg, sg)
               /\ wishlistDuplicates' = wishDuplicates
               /\ wishlistTrace' = MatchingTrace(gg, wg)
               /\ reported' = logDuplicateResults(Len(libraryDuplicates), Len(wishDuplicates))
               /\ batch' = <<>>
               /\ reqStatus' = <<>>
               /\ errLog' = errLog
               /\ pc' = "done"
               /\ outcome' = "ok"
       [] OTHER ->
            \* service.ts lines 36-40, part_003 lines 47-55: a throw of the
            \* matcher is caught by findDuplicates
            LET found == identifyDuplicateGamesLogOnly(variant, gg, sg)
            IN /\ duplicates' = IF found.threw THEN <<>> ELSE found.duplicates
               /\ libraryTrace' = LogOnlyTrace(variant, gg, sg)
               /\ wishlistDuplicates' = <<>>
               /\ wishlistTrace' = <<>>
               /\ reported' = <<>>
               /\ batch' = <<>>
               /\ reqStatus' = <<>>
               /\ errLog' = IF found.threw THEN errLog \o CatchLog ELSE errLog
               /\ pc' = "done"
               /\ outcome' = IF found.threw THEN "error" ELSE "ok"

\* one fetch answers; the run goes on as Promise.all settles
Settle(f, sg, wg, gg, failLog) ==
  /\ fetch' = f
  /\ steamGames' = sg
  /\ wishlistedGames' = wg
  /\ gamevaultGames' = gg
  /\ CASE PromiseAll(FetchNames, f) = "rejected" ->
            /\ pc' = "done"
            /\ outcome' = "error"
            /\ errLog' = errLog \o failLog \o CatchLog
            /\ UNCHANGED << identified, duplicates, wishlistDuplicates, libraryTrace,
                            wishlistTrace, batch, reqStatus, reported >>
       [] PromiseAll(FetchNames, f) = "fulfilled" -> Continue(f, sg, wg, gg)
       [] OTHER ->
            /\ UNCHANGED << pc, outcome, errLog, identified, duplicates,
                            wishlistDuplicates, libraryTrace, wishlistTrace, batch,
                            reqStatus, reported >>
  /\ UNCHANGED << environment, storeTags, runNo, orphans, prev >>

\* fetchSteamGames / fetchSteamLibraryGames: the HTTP response arrives
LibraryResponds ==
  /\ pc = "fetching"
  /\ fetch["library"] = "pending"
  /\ \E ok \in BOOLEAN :
       IF ok
       THEN Settle([fetch EXCEPT !["library"] = "ok"], libraryCatalog, wishlistedGames,
                   gamevaultGames, <<>>)
       ELSE Settle([fetch EXCEPT !["library"] = "failed"], steamGames, wishlistedGames,
                   gamevaultGames,
                   IF variant = "wishlist" THEN <<>> ELSE <<"Steam API fetch failed">>)

\* fetchSteamWishlistGames: the HTTP response arrives
WishlistResponds ==
  /\ pc = "fetching"
  /\ "wishlist" \in FetchNames
  /\ fetch["wishlist"] = "pending"
  /\ \E ok \in BOOLEAN :
       IF ok
       THEN Settle([fetch EXCEPT !["wishlist"] = "ok"], steamGames, wishlistCatalog,
                   gamevaultGames, <<>>)
       ELSE Settle([fetch EXCEPT !["wishlist"] = "failed"], steamGames, wishlistedGames,
                   gamevaultGames, <<>>)

\* fetchGamevaultGames: gamesService.find answers with the store as it is now
VaultResponds ==
  /\ pc = "fetching"
  /\ fetch["vault"] = "pending"
  /\ \E ok \in BOOLEAN :
       IF ok
       THEN Settle([fetch EXCEPT !["vault"] = "ok"], steamGames, wishlistedGames,
                   StoreContent, <<>>)
       ELSE Settle([fetch EXCEPT !["vault"] = "failed"], steamGames, wishlistedGames,
                   gamevaultGames, <<>>)

(***************************************************************************)
(* The store answers one update request of the current batch.  A success   *)
(* replaces the entry's tags by the request's.  Promise.all of the batch   *)
(* is rejected by the first failure (catch block, one logger.error) and    *)
(* fulfilled when every request succeeded; what the other requests do      *)
(* after a rejection is no longer observed by the run.                     *)
(***************************************************************************)
UpdateResolves ==
  \E i \in 1..Len(batch) : \E ok \in BOOLEAN :
    /\ reqStatus[i] = "pending"
    /\ LET answered == [reqStatus EXCEPT ![i] = IF ok THEN "ok" ELSE "failed"]
           sent == Sent(batch, answered)
           status == [j \in 1..Len(batch) |->
                        IF answered[j] = "unsent" /\ j \in sent /\ pc = "tagging" /\ ok
                        THEN "pending" ELSE answered[j]]
       IN /\ reqStatus' = status
          /\ storeTags' = IF ok THEN [storeTags EXCEPT ![batch[i].id] = batch[i].tags]
                          ELSE storeTags
          /\ IF pc = "tagging" /\ ~ok
             THEN pc' = "done" /\ outcome' = "error" /\ errLog' = errLog \o CatchLog
             ELSE IF pc = "tagging" /\ \A j \in 1..Len(batch) : status[j] = "ok"
             THEN pc' = "done" /\ outcome' = "ok" /\ errLog' = errLog
             ELSE UNCHANGED << pc, outcome, errLog >>
    /\ UNCHANGED << environment, runNo, fetch, steamGames, wishlistedGames,
                    gamevaultGames, identified, duplicates, wishlistDuplicates,
                    libraryTrace, wishlistTrace, batch, orphans, reported, prev >>

\* the store answers a request left in flight by an earlier run
OrphanResolves ==
  \E req \in orphans : \E ok \in BOOLEAN :
    /\ orphans' = orphans \ {req}
    /\ storeTags' = IF ok THEN [storeTags EXCEPT ![req.id] = req.tags] ELSE storeTags
    /\ UNCHANGED << environment, runNo, pc, outcome, fetch, errLog, prev >>
    /\ RunLocalsUnchanged

Next ==
  \/ StartRun
  \/ LibraryResponds
  \/ WishlistResponds
  \/ VaultResponds
  \/ UpdateResolves
  \/ OrphanResolves

Spec == Init /\ [][Next]_vars

(***************************************************************************)
(* The same services run on the entries and catalogs at the threshold.     *)
(***************************************************************************)
BoundaryVaults ==
  {v \in [GameIds -> (Len(Profiles) + 1)..Len(Entries)] :
     \A i, j \in GameIds : i < j => v[i] <= v[j]}

InitMatch ==
  /\ variant \in Variants
  /\ config = [key |-> TRUE, user |-> TRUE]
  /\ vault \in BoundaryVaults
  /\ libraryCatalog \in BoundaryCatalogs
  /\ wishlistCatalog = (IF variant = "wishlist" THEN << [appid |-> 20] >> ELSE <<>>)
  /\ intervalEnv = Unset
  /\ INTERVAL = parseNumber(intervalEnv, DefaultInterval)
  /\ phase = "loaded"
  /\ secrets = SecretsOf(config)
  /\ RunIdle

\* one run
NextMatch ==
  \/ FirstRunStarts
  \/ LibraryResponds
  \/ WishlistResponds
  \/ VaultResponds
  \/ UpdateResolves

SpecMatch == InitMatch /\ [][NextMatch]_vars

(***************************************************************************)
(* The tagging service next to another actor on the store.  GamesService   *)
(* is shared with the rest of GameVault, whose users edit tags: here an    *)
(* entry is given the tag "Favorite" at any moment.                        *)
(***************************************************************************)
ExternalTag == "Favorite"

ExternalTagAdded ==
  /\ \E id \in GameIds :
       /\ ExternalTag \notin Range(storeTags[id])
       /\ storeTags' = [storeTags EXCEPT ![id] = Append(@, ExternalTag)]
  /\ UNCHANGED << environment, runNo, pc, outcome, fetch, errLog, orphans, prev >>
  /\ RunLocalsUnchanged

InitExternal ==
  /\ variant = "tagging"
  /\ config = [key |-> TRUE, user |-> TRUE]
  /\ vault \in Vaults
  /\ libraryCatalog = LibraryChessHalo
  /\ wishlistCatalog = <<>>
  /\ intervalEnv = Unset
  /\ INTERVAL = parseNumber(intervalEnv, DefaultInterval)
  /\ phase = "loaded"
  /\ secrets = SecretsOf(config)
  /\ RunIdle

NextExternal ==
  \/ FirstRunStarts
  \/ LibraryResponds
  \/ VaultResponds
  \/ UpdateResolves
  \/ ExternalTagAdded

SpecExternal == InitExternal /\ [][NextExternal]_vars

(***************************************************************************)
(* Two calls of findDuplicates of the tagging service at the same time:    *)
(* the start-up call (the variables of the run) and a cron firing (the     *)
(* record `other`, the locals of that call).  Each call has its own        *)
(* locals; the two share the store and nothing else.                       *)
(***************************************************************************)
OtherUnchanged ==
  /\ UNCHANGED << settings, phase, logged, runNo, pc, outcome, fetch, errLog, orphans,
                  prev >>
  /\ RunLocalsUnchanged

\* part_001 lines 26-32: the call up to await Promise.all
OtherStarts ==
  /\ other.pc = "idle"
  /\ validateSteamConfig(config)
  /\ other' = [other EXCEPT !.pc = "fetching",
                            !.fetch = [library |-> "pending", vault |-> "pending"]]
  /\ UNCHANGED storeTags
  /\ OtherUnchanged

\* part_001 lines 29-49: a fetch answers and the call goes on as Promise.all settles
OtherSettles(f, sg, gg) ==
  LET settled == [other EXCEPT !.fetch = f, !.steamGames = sg, !.gamevaultGames = gg]
      dups == identifyDuplicateGames(gg, sg)
      updates == IF dups = <<>> THEN <<>> ELSE BuildUpdates(dups)
      sent == Sent(updates, [i \in 1..Len(updates) |-> "unsent"])
  IN /\ other' =
          CASE PromiseAll({"library", "vault"}, f) = "rejected" ->
                 [settled EXCEPT !.pc = "done", !.outcome = "error"]
            [] PromiseAll({"library", "vault"}, f) = "fulfilled" ->
                 [settled EXCEPT
                    !.duplicates = dups,
                    !.batch = updates,
                    !.reqStatus = [i \in 1..Len(updates) |->
                                     IF i \in sent THEN "pending" ELSE "unsent"],
                    !.pc = IF updates = <<>> THEN "done" ELSE "tagging",
                    !.outcome = IF updates = <<>> THEN "ok" ELSE "none"]
            [] OTHER -> settled
     /\ UNCHANGED storeTags
     /\ OtherUnchanged

OtherLibraryResponds ==
  /\ other.pc = "fetching"
  /\ other.fetch["library"] = "pending"
  /\ \E ok \in BOOLEAN :
       IF ok
       THEN OtherSettles([other.fetch EXCEPT !["library"] = "ok"], libraryCatalog,
                         other.gamevaultGames)
       ELSE OtherSettles([other.fetch EXCEPT !["library"] = "failed"], other.steamGames,
                         other.gamevaultGames)

OtherVaultResponds ==
  /\ other.pc = "fetching"
  /\ other.fetch["vault"] = "pending"
  /\ \E ok \in BOOLEAN :
       IF ok
       THEN OtherSettles([other.fetch EXCEPT !["vault"] = "ok"], other.steamGames,
                         StoreContent)
       ELSE OtherSettles([other.fetch EXCEPT !["vault"] = "failed"], other.steamGames,
                         other.gamevaultGames)

\* part_001 lines 184-186: the store answers one update request of that call
OtherUpdateResolves ==
  /\ \E i \in 1..Len(other.batch) : \E ok \in BOOLEAN :
       /\ other.reqStatus[i] = "pending"
       /\ LET answered == [other.reqStatus EXCEPT ![i] = IF ok THEN "ok" ELSE "failed"]
              sent == Sent(other.batch, answered)
              status == [j \in 1..Len(other.batch) |->
                           IF answered[j] = "unsent" /\ j \in sent /\ other.pc = "tagging" /\ ok
                           THEN "pending" ELSE answered[j]]
          IN /\ storeTags' = IF ok THEN [storeTags EXCEPT ![other.batch[i].id] =
                                                           other.batch[i].tags]
                             ELSE storeTags
             /\ other' =
                  IF other.pc = "tagging" /\ ~ok
                  THEN [other EXCEPT !.reqStatus = status, !.pc = "done", !.outcome = "error"]
                  ELSE IF other.pc = "tagging" /\ \A j \in 1..Len(status) : status[j] = "ok"
                  THEN [other EXCEPT !.reqStatus = status, !.pc = "done", !.outcome = "ok"]
                  ELSE [other EXCEPT !.reqStatus = status]
  /\ OtherUnchanged

InitOverlap ==
  /\ variant = "tagging"
  /\ config = [key |-> TRUE, user |-> TRUE]
  /\ vault \in Vaults
  /\ libraryCatalog = LibraryChessHalo
  /\ wishlistCatalog = <<>>
  /\ intervalEnv = Unset
  /\ INTERVAL = parseNumber(intervalEnv, DefaultInterval)
  /\ phase = "loaded"
  /\ secrets = SecretsOf(config)
  /\ RunIdle

NextOverlap ==
  \/ FirstRunStarts
  \/ LibraryResponds
  \/ VaultResponds
  \/ UpdateResolves
  \/ OtherStarts
  \/ OtherLibraryResponds
  \/ OtherVaultResponds
  \/ OtherUpdateResolves

SpecOverlap == InitOverlap /\ [][NextOverlap]_vars

(***************************************************************************)
(* The four services side by side, on one reference catalog.               *)
(***************************************************************************)
InitServices ==
  /\ variant \in AllVariants
  /\ config \in Configs
  /\ vault \in Vaults
  /\ libraryCatalog = LibraryTwoHalos
  /\ wishlistCatalog \in (IF variant = "wishlist" THEN WishlistCatalogs ELSE {<<>>})
  /\ intervalEnv = Unset
  /\ INTERVAL = parseNumber(intervalEnv, DefaultInterval)
  /\ phase = "loaded"
  /\ secrets = SecretsOf(config)
  /\ RunIdle

SpecServices == InitServices /\ [][Next]_vars

\* the state of the runs
runs ==
  << storeTags, runNo, pc, outcome, fetch, steamGames, wishlistedGames, gamevaultGames,
     identified, duplicates, wishlistDuplicates, libraryTrace, wishlistTrace, batch,
     reqStatus, orphans, errLog, reported, prev >>

(***************************************************************************)
(* Loading the plugin.  configuration.ts is evaluated on import: INTERVAL  *)
(* is parseNumber of the environment variable with the default 24 * 60.    *)
(***************************************************************************)
LoadConfiguration ==
  /\ phase = "import"
  /\ INTERVAL' = parseNumber(intervalEnv, DefaultInterval)
  /\ phase' = "loaded"
  /\ UNCHANGED << variant, config, vault, libraryCatalog, wishlistCatalog, intervalEnv,
                  runs, other, secrets, logged >>

\* the interval variable is any string of EnvChars or unset
InitConfig ==
  /\ variant = "tagging"
  /\ config = [key |-> TRUE, user |-> TRUE]
  /\ vault = [i \in GameIds |-> 1]
  /\ libraryCatalog = LibraryChessHalo
  /\ wishlistCatalog = <<>>
  /\ intervalEnv \in EnvValues
  /\ INTERVAL = NaN
  /\ phase = "import"
  /\ secrets = SecretsOf(config)
  /\ RunIdle

SpecConfig == InitConfig /\ [][LoadConfiguration]_vars

(***************************************************************************)
(* The triggers of findDuplicates.                                         *)
(*   start-up: the constructor calls this.findDuplicates() (part_001 line  *)
(*     20, service.ts line 19), or initialScan does, 10 s (part_002 lines  *)
(*     240-243) or 60 s (part_003 lines 28-31) after the server started;   *)
(*     neither looks at INTERVAL;                                          *)
(*   cron: @Cron(`*/${INTERVAL} * * * *`, {disabled: INTERVAL <= 0}).      *)
(* A run is started here when no other is between its start and its end.   *)
(***************************************************************************)
ConstructorVariants == {"tagging", "log"}

StartupScan ==
  /\ phase = "loaded"
  /\ phase' = "started"
  /\ BeginRun
  /\ UNCHANGED << settings, storeTags, other, logged >>

\* the cron job exists once the service is constructed
CronFires ==
  /\ phase = "started" \/ (phase = "loaded" /\ variant \notin ConstructorVariants)
  /\ ~CronDisabled(INTERVAL)
  /\ BeginRun
  /\ UNCHANGED << environment, storeTags >>

\* the values of the interval variable the scheduler is tried with
SchedEnvValues ==
  {Unset, [set |-> TRUE, value |-> <<"0">>], [set |-> TRUE, value |-> <<"7">>],
   [set |-> TRUE, value |-> <<>>]}

InitSched ==
  /\ variant \in AllVariants
  /\ config = [key |-> TRUE, user |-> TRUE]
  /\ vault = [i \in GameIds |-> 1]
  /\ libraryCatalog = LibraryChessHalo
  /\ wishlistCatalog = (IF variant = "wishlist" THEN << [appid |-> 20] >> ELSE <<>>)
  /\ intervalEnv \in SchedEnvValues
  /\ INTERVAL = NaN
  /\ phase = "import"
  /\ secrets = SecretsOf(config)
  /\ RunIdle

NextSched ==
  \/ LoadConfiguration
  \/ StartupScan
  \/ CronFires
  \/ LibraryResponds
  \/ WishlistResponds
  \/ VaultResponds
  \/ UpdateResolves
  \/ OrphanResolves

SpecSched == InitSched /\ [][NextSched]_vars

(***************************************************************************)
(* The tagging service from the import of configuration.ts on, with the    *)
(* key and the user id unset, empty or set.  The constructor (part_001     *)
(* lines 15-21) logs getCensoredConfiguration() and calls findDuplicates.  *)
(***************************************************************************)
ConstructService ==
  /\ phase = "loaded"
  /\ phase' = "started"
  /\ logged' = getCensoredConfiguration(
                  ConfigurationOf(secrets.user, secrets.key, INTERVAL))
  /\ BeginRun
  /\ UNCHANGED << settings, storeTags, other >>

InitCensor ==
  /\ variant = "tagging"
  /\ secrets \in [key : SecretValues, user : SecretValues]
  /\ config = ConfigOf(secrets)
  /\ vault = [i \in GameIds |-> 1]
  /\ libraryCatalog = LibraryChessHalo
  /\ wishlistCatalog = <<>>
  /\ intervalEnv \in SchedEnvValues \cup {[set |-> TRUE, value |-> <<"-", "0">>]}
  /\ INTERVAL = NaN
  /\ phase = "import"
  /\ RunIdle

NextCensor ==
  \/ LoadConfiguration
  \/ ConstructService
  \/ LibraryResponds
  \/ VaultResponds
  \/ UpdateResolves

SpecCensor == InitCensor /\ [][NextCensor]_vars

(***************************************************************************)
(* Vocabulary of the properties.                                           *)
(***************************************************************************)
SnapshotIds == 1..Len(gamevaultGames)

\* the id the running service extracts from a snapshot entry
ExtractedId(game) ==
  IF variant \in {"tagging", "log"} THEN extractSteamAppId(game)
  ELSE extractSteamAppIdMerged(game)

\* the reference entries that game matches, by id or by title
MatchingEntries(game, steamItems) ==
  {k \in 1..Len(steamItems) :
     \/ NatToString(steamItems[k].appid) = ExtractedId(game)
     \/ /\ HasName(steamItems[k])
        /\ AboveThreshold(stringSimilarity(kebabCase(game.title),
                                           kebabCase(steamItems[k].name)))}

InResult(game, set) == \E k \in 1..Len(set) : set[k] = game

RequestsFor(id) == {k \in 1..Len(batch) : batch[k].id = id}

FailedRequests == {k \in 1..Len(batch) : reqStatus[k] = "failed"}

ConfigMissing == ~config.key \/ ~config.user

FetchFailed == ConfigMissing \/ \E n \in FetchNames : fetch[n] = "failed"

(***************************************************************************)
(* C1  Idempotence of a run.  When the previous run of the tagging service *)
(* completed (every one of its tag writes applied) and this run follows it *)
(* against the same catalog and store, identifyDuplicateGames returns the  *)
(* empty set and tagGamesAsDuplicate submits no update request.            *)
(***************************************************************************)
Idempotence_C1 ==
  (variant = "tagging" /\ prev.ok /\ identified) => (duplicates = <<>> /\ batch = <<>>)

\* a second run after a run that tagged at least one entry
Witness_C1 ==
  /\ variant = "tagging"
  /\ prev.ok
  /\ prev.tagged > 0
  /\ identified
  /\ pc = "done"
  /\ duplicates = <<>>

(***************************************************************************)
(* C2  Abort without partial writes.  In a run whose reference-catalog     *)
(* fetch or local-store read failed (missing configuration, non-success    *)
(* response, store error) no update request is submitted to the local      *)
(* store: the run's batch stays empty.                                     *)
(***************************************************************************)
AbortWithoutWrites_C2 ==
  (runNo > 0 /\ FetchFailed) => (batch = <<>> /\ reqStatus = <<>>)

\* the Steam fetch failed after the store had answered with entries that match
Witness_C2 ==
  /\ variant = "tagging"
  /\ fetch["library"] = "failed"
  /\ fetch["vault"] = "ok"
  /\ identifyDuplicateGames(gamevaultGames, libraryCatalog) # <<>>
  /\ batch = <<>>

(***************************************************************************)
(* C3  No duplicate tagging.  Every tag list written to the store, by the  *)
(* current batch or by a request still in flight from an earlier run, and  *)
(* every tag list in the store, holds the sentinel at most once.           *)
(***************************************************************************)
NoDuplicateTagging_C3 ==
  /\ \A k \in 1..Len(batch) : CountOf(DUPLICATE_TAG, batch[k].tags) <= 1
  /\ \A req \in orphans : CountOf(DUPLICATE_TAG, req.tags) <= 1
  /\ \A id \in GameIds : CountOf(DUPLICATE_TAG, storeTags[id]) <= 1

\* a request was applied: the entry kept its other tag and got the sentinel once
Witness_C3 ==
  \E k \in 1..Len(batch) :
    /\ reqStatus[k] = "ok"
    /\ storeTags[batch[k].id] = batch[k].tags
    /\ Len(batch[k].tags) > 1
    /\ CountOf(DUPLICATE_TAG, storeTags[batch[k].id]) = 1

(***************************************************************************)
(* C4  Exact precedence.  For every local entry whose extracted Steam app  *)
(* id is the appid of a reference entry, the matcher's result is "exact",  *)
(* the entry is in the result, and the title scan was not executed (no     *)
(* title was scored) for that entry and catalog.                           *)
(***************************************************************************)
ExactPrecedence_C4 ==
  identified =>
    \A i \in SnapshotIds :
      /\ (libraryTrace[i].extracted
          /\ HasAppId(steamGames, ExtractedId(gamevaultGames[i])))
         => /\ libraryTrace[i] = MatchResult("exact", TRUE, FALSE, 0)
            /\ InResult(gamevaultGames[i], duplicates)
      /\ (variant = "wishlist"
          /\ wishlistTrace[i].extracted
          /\ HasAppId(wishlistedGames, ExtractedId(gamevaultGames[i])))
         => /\ wishlistTrace[i] = MatchResult("exact", TRUE, FALSE, 0)
            /\ InResult(gamevaultGames[i], wishlistDuplicates)

\* an exact match while another reference entry's name is above the threshold
Witness_C4 ==
  /\ variant = "tagging"
  /\ identified
  /\ \E i \in SnapshotIds :
       /\ libraryTrace[i].kind = "exact"
       /\ \E k \in 1..Len(steamGames) :
            /\ NatToString(steamGames[k].appid) # ExtractedId(gamevaultGames[i])
            /\ AboveThreshold(stringSimilarity(kebabCase(gamevaultGames[i].title),
                                               kebabCase(steamGames[k].name)))

(***************************************************************************)
(* C5 as stated.  Every matcher skips a local entry whose snapshot tags    *)
(* hold the sentinel: no identifier extracted, no title scored, the entry  *)
(* in no result set, for every reference catalog.                          *)
(***************************************************************************)
TaggedSkippedEverywhere_C5 ==
  identified =>
    \A i \in SnapshotIds :
      IsTagged(gamevaultGames[i])
      => /\ libraryTrace[i] = MatchResult("skipped", FALSE, FALSE, 0)
         /\ ~InResult(gamevaultGames[i], duplicates)
         /\ variant = "wishlist"
            => /\ wishlistTrace[i] = MatchResult("skipped", FALSE, FALSE, 0)
               /\ ~InResult(gamevaultGames[i], wishlistDuplicates)

(***************************************************************************)
(* C5 amended.  identifyDuplicateGames of the tagging service skips a      *)
(* local entry whose snapshot tags hold the sentinel: no identifier is     *)
(* extracted, no title is scored and the entry is not in the result set.   *)
(***************************************************************************)
TaggedSkipped_C5 ==
  (variant = "tagging" /\ identified) =>
    \A i \in SnapshotIds :
      IsTagged(gamevaultGames[i])
      => /\ libraryTrace[i] = MatchResult("skipped", FALSE, FALSE, 0)
         /\ ~InResult(gamevaultGames[i], duplicates)

\* a tagged entry that would have matched by id was matched against a catalog
Witness_C5 ==
  /\ variant = "tagging"
  /\ identified
  /\ \E i \in SnapshotIds :
       /\ IsTagged(gamevaultGames[i])
       /\ HasAppId(steamGames, extractSteamAppId(gamevaultGames[i]))
       /\ libraryTrace[i].kind = "skipped"

(***************************************************************************)
(* C6 as stated.  When the wishlist cannot be obtained while the library   *)
(* and the local-store snapshot are, the run is not aborted: library       *)
(* matching is performed over every local entry and its results produced.  *)
(***************************************************************************)
WishlistOptional_C6 ==
  (/\ variant = "wishlist"
   /\ fetch["wishlist"] = "failed"
   /\ fetch["library"] = "ok"
   /\ fetch["vault"] = "ok")
  => /\ outcome # "error"
     /\ identified
     /\ duplicates = findMatchingGames(gamevaultGames, steamGames)

(***************************************************************************)
(* C6 amended.  When the wishlist cannot be obtained the run is aborted:   *)
(* it ends in the catch block with one error logged, no matching is        *)
(* performed and no result is reported, whatever the other fetches did.    *)
(***************************************************************************)
WishlistFailureAborts_C6 ==
  (variant = "wishlist" /\ fetch["wishlist"] = "failed")
  => /\ pc = "done"
     /\ outcome = "error"
     /\ ~identified
     /\ duplicates = <<>>
     /\ reported = <<>>
     /\ errLog = CatchLog

\* the wishlist failed after library and store had answered with matching entries
Witness_C6 ==
  /\ variant = "wishlist"
  /\ fetch["wishlist"] = "failed"
  /\ fetch["library"] = "ok"
  /\ fetch["vault"] = "ok"
  /\ findMatchingGames(gamevaultGames, steamGames) # <<>>

(***************************************************************************)
(* C7  Sibling writes are not aborted.  When the update of one entry of a  *)
(* batch has failed, every other request of the batch has been submitted   *)
(* to the store all the same, and one the store has answered with success  *)
(* is applied: the entry carries the sentinel.                             *)
(***************************************************************************)
SiblingWrites_C7 ==
  \A k \in 1..Len(batch) :
    (\E j \in FailedRequests : j # k)
    => /\ reqStatus[k] \in {"pending", "ok", "failed"}
       /\ reqStatus[k] = "ok" => IsTagged([tags |-> storeTags[batch[k].id]])

\* the run ended in the catch block on one failure; a sibling was applied
Witness_C7 ==
  /\ pc = "done"
  /\ outcome = "error"
  /\ \E j, k \in 1..Len(batch) :
       /\ reqStatus[j] = "failed"
       /\ reqStatus[k] = "ok"
       /\ storeTags[batch[k].id] = batch[k].tags

(***************************************************************************)
(* C8  Per-entry failure reporting.  When the run of the tagging service   *)
(* has ended after matching, one error has been logged for every update    *)
(* request of the batch that failed.                                       *)
(***************************************************************************)
PerEntryFailureReports_C8 ==
  (variant = "tagging" /\ identified /\ pc = "done")
  => Len(errLog) = Cardinality(FailedRequests)

(***************************************************************************)
(* C9  At most one update per entry per run.  The batch of a run holds at  *)
(* most one update request for a local entry id.                           *)
(***************************************************************************)
AtMostOneUpdate_C9 ==
  \A j, k \in 1..Len(batch) : batch[j].id = batch[k].id => j = k

\* one request for an entry that matches two or more reference entries
Witness_C9 ==
  /\ variant = "tagging"
  /\ \E i \in SnapshotIds :
       /\ Cardinality(MatchingEntries(gamevaultGames[i], steamGames)) >= 2
       /\ Cardinality(RequestsFor(gamevaultGames[i].id)) = 1

(***************************************************************************)
(* C10 as stated.  In the library-and-wishlist service a local entry that  *)
(* matches in exactly one of the two catalogs receives exactly one update  *)
(* request adding the sentinel in that run.                                *)
(***************************************************************************)
OneSourceOneUpdate_C10 ==
  (variant = "wishlist" /\ identified) =>
    \A i \in SnapshotIds :
      (InResult(gamevaultGames[i], duplicates)
       # InResult(gamevaultGames[i], wishlistDuplicates))
      => \E k \in 1..Len(batch) :
           /\ RequestsFor(gamevaultGames[i].id) = {k}
           /\ CountOf(DUPLICATE_TAG, batch[k].tags) = 1

(***************************************************************************)
(* C10 amended.  In the library-and-wishlist service a local entry is in   *)
(* the library result exactly when it matches a library entry and in the   *)
(* wishlist result exactly when it matches a wishlist entry, so an entry   *)
(* matching in one catalog only is in that result alone; the counts logged *)
(* are the sizes of the two results, each from its own; and the run        *)
(* submits no update request (the service only logs).                      *)
(***************************************************************************)
SourceIndependence_C10 ==
  (variant = "wishlist" /\ identified) =>
    /\ \A i \in SnapshotIds :
         /\ InResult(gamevaultGames[i], duplicates)
            <=> (MatchingEntries(gamevaultGames[i], steamGames) # {}
                 /\ (gamevaultGames[i].title # <<>>
                     \/ HasAppId(steamGames, ExtractedId(gamevaultGames[i]))))
         /\ InResult(gamevaultGames[i], wishlistDuplicates)
            <=> HasAppId(wishlistedGames, ExtractedId(gamevaultGames[i]))
    /\ reported.library = Len(duplicates)
    /\ reported.wishlist = Len(wishlistDuplicates)
    /\ batch = <<>>
    /\ storeTags = [i \in GameIds |-> Entries[vault[i]].tags]

\* an entry matched in the wishlist only, and two different counts
Witness_C10 ==
  /\ variant = "wishlist"
  /\ identified
  /\ reported.library # reported.wishlist
  /\ \E i \in SnapshotIds :
       /\ InResult(gamevaultGames[i], wishlistDuplicates)
       /\ ~InResult(gamevaultGames[i], duplicates)

(***************************************************************************)
(* C11.  Interval 0 disables the plugin: once the configuration is loaded  *)
(* with an interval of 0, no run of findDuplicates is started, neither by  *)
(* the cron schedule nor by the start-up scan.                             *)
(***************************************************************************)
IntervalZeroNoRun_C11 ==
  (phase # "import" /\ IsZero(INTERVAL)) => runNo = 0

(***************************************************************************)
(* C12.  Interval parsing: parseNumber gives 0 for "0", the value of every *)
(* non-negative numeric string, and the default 1440 for every negative or *)
(* non-numeric input, the empty string, a white-space-only string and an   *)
(* unset variable included.  (White space around a number is not counted   *)
(* against it, and "-0" is left open.)                                     *)
(***************************************************************************)
\* the value of a string of decimal digits
DecimalValue(s) ==
  LET RECURSIVE Value(_)
      Value(t) == IF t = <<>> THEN 0 ELSE 10 * Value(SubSeq(t, 1, Len(t) - 1))
                                          + DigitValue(t[Len(t)])
  IN Value(s)

IntervalParsing_C12 ==
  phase # "import" =>
    LET text == TrimEnd(TrimStart(intervalEnv.value))
    IN CASE intervalEnv.set /\ AllDigits(text) ->
              INTERVAL = Num(FALSE, NatToString(DecimalValue(text)))
         [] /\ intervalEnv.set
            /\ text # <<>>
            /\ Head(text) = "-"
            /\ AllDigits(Tail(text))
            /\ DecimalValue(Tail(text)) = 0 -> TRUE
         [] OTHER -> INTERVAL = Num(FALSE, NatToString(1440))

(***************************************************************************)
(* C13.  Configuration error fails fast.  As claimed: when the API key or  *)
(* the user id is missing, a run issues no fetch at all, neither a Steam   *)
(* request nor the read of the local store, and submits no write.          *)
(***************************************************************************)
ConfigErrorBeforeAnyFetch_C13 ==
  (runNo > 0 /\ ConfigMissing) =>
    /\ \A n \in FetchNames : fetch[n] \in {"none", "config"}
    /\ batch = <<>>

\* C13 as the code has it: when the API key or the user id is missing, every
\* Steam fetch of the run is rejected before its HTTP request and no write is
\* submitted, while the read of the local store has been started by the same
\* Promise.all([...]) and is never looked at; the run ends in the catch block.
ConfigErrorBeforeSteamRequest_C13 ==
  (runNo > 0 /\ ConfigMissing) =>
    /\ \A n \in FetchNames \ {"vault"} : fetch[n] = "config"
    /\ fetch["vault"] = "pending"
    /\ gamevaultGames = <<>>
    /\ batch = <<>>
    /\ reqStatus = <<>>
    /\ pc = "done"
    /\ outcome = "error"

\* a run of the wishlist service with the user id missing has ended
Witness_C13 ==
  /\ runNo > 0
  /\ config.key
  /\ ~config.user
  /\ variant = "wishlist"
  /\ fetch["wishlist"] = "config"
  /\ fetch["vault"] = "pending"
  /\ pc = "done"

(***************************************************************************)
(* C14.  Strict threshold: an entry that reaches the title scan is a fuzzy *)
(* match exactly when some reference name scores strictly more than 0.9    *)
(* against its title, both normalized by kebabCase; a pair scoring exactly *)
(* 0.9 (18/20) is no match.                                                *)
(***************************************************************************)
\* the score, a fraction, of a local title against a reference name
NormalizedScore(title, name) == stringSimilarity(kebabCase(title), kebabCase(name))

LibraryScores(game) ==
  {NormalizedScore(game.title, steamGames[k].name) : k \in 1..Len(steamGames)}

StrictThreshold_C14 ==
  identified =>
    \A i \in SnapshotIds :
      libraryTrace[i].scanned =>
        /\ libraryTrace[i].kind = "fuzzy"
             <=> \E sc \in LibraryScores(gamevaultGames[i]) : 10 * sc[1] > 9 * sc[2]
        /\ (\A sc \in LibraryScores(gamevaultGames[i]) : 10 * sc[1] <= 9 * sc[2])
             => ~InResult(gamevaultGames[i], duplicates)

\* an entry was scanned against a single name scoring exactly 0.9 and is no match
Witness_C14 ==
  /\ identified
  /\ \E i \in SnapshotIds :
       /\ libraryTrace[i].scanned
       /\ libraryTrace[i].kind = "none"
       /\ LibraryScores(gamevaultGames[i]) = {<<18, 20>>}
       /\ ~InResult(gamevaultGames[i], duplicates)

(***************************************************************************)
(* C19.  Identifier extraction order: extractSteamAppId returns the digits *)
(* captured from the first of the entry's URLs, in their given order, that *)
(* contains store.steampowered.com/app/<digits>; URLs that do not match    *)
(* are skipped; the result is null (<<>>) when no URL matches or there is  *)
(* no URL.  The exact branch is taken on that id and no other.             *)
(***************************************************************************)
\* the URLs of an entry as the running service reads them
ReferenceUrls(game) ==
  IF variant \in {"tagging", "log"} THEN Flatten(game.provider_metadata)
  ELSE game.metadata

\* url holds the prefix followed by exactly the digits id, at its first such place
Captures(url, id) ==
  /\ id # <<>>
  /\ \A k \in 1..Len(id) : IsDigit(id[k])
  /\ \E p \in 1..Len(url) :
       /\ url[p] = STEAM_APP_PREFIX
       /\ p + Len(id) <= Len(url)
       /\ SubSeq(url, p + 1, p + Len(id)) = id
       /\ p + Len(id) < Len(url) => ~IsDigit(url[p + Len(id) + 1])
       /\ \A q \in 1..(p - 1) :
            ~(url[q] = STEAM_APP_PREFIX /\ q < Len(url) /\ IsDigit(url[q + 1]))

IsSteamUrl(url) ==
  \E p \in 1..(Len(url) - 1) : url[p] = STEAM_APP_PREFIX /\ IsDigit(url[p + 1])

ExtractionOrder_C19 ==
  \A i \in SnapshotIds :
    LET game == gamevaultGames[i]
        urls == ReferenceUrls(game)
        id == ExtractedId(game)
        steam == {k \in 1..Len(urls) : IsSteamUrl(urls[k])}
    IN /\ IF steam = {} THEN id = <<>>
          ELSE Captures(urls[CHOOSE k \in steam : \A j \in steam : k <= j], id)
       /\ (identified /\ ~IsTagged(game)) =>
            (libraryTrace[i].kind = "exact" <=> (id # <<>> /\ HasAppId(steamGames, id)))

\* an entry whose URLs are one that is none of Steam, then that of app 7,
\* then that of app 20, matched against a catalog holding 20 and not 7
Witness_C19 ==
  /\ identified
  /\ \E i \in SnapshotIds :
       LET urls == ReferenceUrls(gamevaultGames[i])
       IN /\ Len(urls) = 3
          /\ ~IsSteamUrl(urls[1])
          /\ Captures(urls[2], <<"7">>)
          /\ Captures(urls[3], <<"2", "0">>)
          /\ HasAppId(steamGames, <<"2", "0">>)
          /\ ~HasAppId(steamGames, <<"7">>)
          /\ libraryTrace[i].kind # "exact"

(***************************************************************************)
(* C15.  Log-only plugin: in the services that only log (service.ts,       *)
(* part_003, part_002 lines 208-406) no run submits an update request and  *)
(* the store keeps the tags it started with, whether or not duplicates are *)
(* found.                                                                  *)
(***************************************************************************)
LogOnlyNoWrites_C15 ==
  variant # "tagging" =>
    /\ batch = <<>>
    /\ reqStatus = <<>>
    /\ orphans = {}
    /\ storeTags = [i \in GameIds |-> Entries[vault[i]].tags]

\* a run of service.ts found a duplicate and ended without error
Witness_C15 ==
  /\ variant = "log"
  /\ pc = "done"
  /\ outcome = "ok"
  /\ duplicates # <<>>
  /\ batch = <<>>

(***************************************************************************)
(* C16.  Fuzzy fallback: an entry with a non-empty title and no exact      *)
(* identifier match, one of whose reference names scores above 0.9, is     *)
(* added to the result at the first such reference entry in catalog order, *)
(* the scan of that entry stops there, and the remaining local entries are *)
(* matched as usual.                                                       *)
(***************************************************************************)
\* the catalog positions whose name scores above 0.9 against the title of game
FuzzyHits(game) ==
  {k \in 1..Len(steamGames) :
     LET sc == NormalizedScore(game.title, steamGames[k].name)
     IN 10 * sc[1] > 9 * sc[2]}

FuzzyFallback_C16 ==
  (identified /\ variant # "wishlist") =>
    \A i \in SnapshotIds :
      LET game == gamevaultGames[i]
          id == ExtractedId(game)
      IN (/\ game.title # <<>>
          /\ variant = "tagging" => ~IsTagged(game)
          /\ id = <<>> \/ ~HasAppId(steamGames, id)
          /\ FuzzyHits(game) # {}) =>
           /\ InResult(game, duplicates)
           /\ libraryTrace[i].scored = CHOOSE k \in FuzzyHits(game) : \A j \in FuzzyHits(game) : k <= j
           /\ \A j \in SnapshotIds : libraryTrace[j].kind \notin {"threw", "unvisited"}

ObservedFailure ==
  \/ \E n \in FetchNames : fetch[n] \in {"failed", "config"}
  \/ \E i \in 1..Len(libraryTrace) : libraryTrace[i].kind = "threw"
  \/ FailedRequests # {}

\* the failure ended the run in the catch block, whose logger.error is the
\* last entry of the log and the only one of its kind; the place that
\* detected the failure may have logged it before
CaughtAndLogged ==
  /\ ObservedFailure <=> outcome = "error"
  /\ outcome = "error" =>
       /\ pc = "done"
       /\ errLog # <<>>
       /\ Len(errLog) <= 2
       /\ <<errLog[Len(errLog)]>> = CatchLog
       /\ CountOf(CatchLog[1], errLog) = 1
  /\ outcome # "error" => errLog = <<>>

\* within a run no fetch and no update request that was answered is issued again
NoRetryStep ==
  runNo' = runNo =>
    /\ \A n \in FetchNames :
         fetch[n] \in {"ok", "failed", "config"} => fetch'[n] = fetch[n]
    /\ batch # <<>> =>
         /\ batch' = batch
         /\ \A k \in 1..Len(batch) :
              reqStatus[k] \in {"ok", "failed"} => reqStatus'[k] = reqStatus[k]

\* the next run starts from nothing but the configuration
FreshStartStep ==
  runNo' # runNo =>
    /\ steamGames' = <<>> /\ wishlistedGames' = <<>> /\ gamevaultGames' = <<>>
    /\ ~identified' /\ duplicates' = <<>> /\ wishlistDuplicates' = <<>>
    /\ batch' = <<>> /\ reqStatus' = <<>>
    /\ \A n \in FetchNames : fetch'[n] \in {"pending", "config"}
    /\ errLog' = (IF ConfigMissing THEN ValidateLog(config) \o CatchLog ELSE <<>>)

TagsOnlyAdded_C17 ==
  [][\A id \in GameIds : Range(storeTags[id]) \subseteq Range(storeTags'[id])]_vars

(***************************************************************************)
(* C18.  Overlapping runs are safe: with two calls of findDuplicates       *)
(* overlapping on one store that applies updates last-write-wins, no entry *)
(* ever loses a tag or carries the sentinel twice, and once both calls     *)
(* have ended, at least one of them without error and no request still in  *)
(* flight, every entry matched by either call carries the sentinel exactly *)
(* once and the store's tags are those a single run produces.              *)
(***************************************************************************)
\* the store's content before any run
InitialContent ==
  [i \in GameIds |->
     [id |-> i, title |-> Entries[vault[i]].title,
      provider_metadata |-> Entries[vault[i]].provider_metadata,
      metadata |-> Entries[vault[i]].metadata, tags |-> Entries[vault[i]].tags]]

\* the tags of entry i after one run whose writes were all applied
SingleRunTags(i) ==
  LET matched == identifyDuplicateGames(InitialContent, libraryCatalog)
  IN IF InResult(InitialContent[i], matched)
     THEN Append(InitialContent[i].tags, DUPLICATE_TAG)
     ELSE InitialContent[i].tags

MatchedByEither(i) ==
  \/ \E k \in 1..Len(duplicates) : duplicates[k].id = i
  \/ \E k \in 1..Len(other.duplicates) : other.duplicates[k].id = i

NothingInFlight ==
  /\ \A k \in 1..Len(reqStatus) : reqStatus[k] # "pending"
  /\ \A k \in 1..Len(other.reqStatus) : other.reqStatus[k] # "pending"

OverlapSafe_C18 ==
  /\ \A i \in GameIds :
       /\ storeTags[i] \in {InitialContent[i].tags, SingleRunTags(i)}
       /\ CountOf(DUPLICATE_TAG, storeTags[i]) <= 1
  /\ (/\ pc = "done" /\ other.pc = "done"
      /\ outcome = "ok" \/ other.outcome = "ok"
      /\ NothingInFlight) =>
       \A i \in GameIds :
         /\ storeTags[i] = SingleRunTags(i)
         /\ MatchedByEither(i) => CountOf(DUPLICATE_TAG, storeTags[i]) = 1

\* both calls ended without error after each wrote the tags of one same
\* entry, and the later call read the store when the earlier had already
\* tagged another entry
Witness_C18 ==
  /\ pc = "done" /\ other.pc = "done"
  /\ outcome = "ok" /\ other.outcome = "ok"
  /\ \E k \in 1..Len(batch) : \E m \in 1..Len(other.batch) : batch[k].id = other.batch[m].id
  /\ Len(batch) # Len(other.batch)

(***************************************************************************)
(* C21.  The API key is never exposed in the logged configuration.  As     *)
(* claimed: the logged STEAM_API_KEY is "**REDACTED**" when a key is set   *)
(* (not empty) and null otherwise, the output is the same whatever the     *)
(* non-empty key, and STEAM_USER_ID and INTERVAL are the very values of    *)
(* the configuration.                                                      *)
(***************************************************************************)
\* the logged key is the marker or null, and any other non-empty key gives
\* the same output
KeyHidden ==
  /\ logged.STEAM_API_KEY =
       (IF secrets.key.set /\ secrets.key.value # <<>> THEN JsString(REDACTED) ELSE JsNull)
  /\ (secrets.key.set /\ secrets.key.value # <<>>) =>
       \A otherKey \in SecretValues :
         (otherKey.set /\ otherKey.value # <<>>) =>
           getCensoredConfiguration(ConfigurationOf(secrets.user, otherKey, INTERVAL)) = logged

CensoredUnchanged_C21 ==
  logged # NotLogged =>
    /\ KeyHidden
    /\ logged.STEAM_USER_ID = (IF secrets.user.set THEN JsString(secrets.user.value)
                               ELSE JsUndefined)
    /\ logged.INTERVAL = JsNumber(INTERVAL)

\* C21 as the code has it: the key is hidden as claimed; STEAM_USER_ID is
\* returned as its string when the variable is set and as null when it is
\* unset; INTERVAL is returned as the same number, a negative zero as 0.
CensoredConfiguration_C21 ==
  logged # NotLogged =>
    /\ KeyHidden
    /\ logged.STEAM_USER_ID = (IF secrets.user.set THEN JsString(secrets.user.value)
                               ELSE JsNull)
    /\ logged.INTERVAL = JsNumber(Num(INTERVAL.neg /\ ~IsZero(INTERVAL), INTERVAL.digits))
    /\ ~INTERVAL.nan

\* a configuration with a key, without user id and with the default interval
\* has been logged
Witness_C21 ==
  /\ logged # NotLogged
  /\ secrets.key = [set |-> TRUE, value |-> <<"k", "2", "x">>]
  /\ ~secrets.user.set
  /\ logged.STEAM_API_KEY = JsString(REDACTED)
  /\ logged.STEAM_USER_ID = JsNull
  /\ logged.INTERVAL = JsNumber(DefaultInterval)

====
